---- MODULE Spec2Model ----
(***************************************************************************)
(* Strong-spot extraction of dials (algorithms/spot_finding/finder.py):    *)
(* ExtractPixelsFromImage, ExtractSpots and SpotFinder, run on one         *)
(* imageset (an ImageSweep whose array range starts at 0, default          *)
(* scan_range).  The thresholding strategy, the detector model and the     *)
(* spot filter are collaborators: the model takes the strong pixels of     *)
(* every frame (threshold mask true) as the input.                         *)
(*                                                                         *)
(* PixelListLabeller, PixelListShoeboxCreator and                          *)
(* batch_multi_node_parallel_map are not part of the listed sources; they  *)
(* are modelled from sections 4.2, 4.3 and 4.4 of the specification.       *)
(***************************************************************************)
EXTENDS Integers, Sequences, FiniteSets, TLC

\* ---------------------------------------------------------------- bounds
\* len(imageset): the number of frames of the sweep.
NumFrames == 3
\* The most strong pixels an input imageset holds (all panels, all frames)
\* in the runs that vary the spot sizes.
MaxStrong == 6
\* The same in the runs that vary the masks or the strong-pixel fraction.
MaxStrongMask == 4
\* The same in the runs with more than one process or job asked for.
MaxStrongMp == 2
\* The most strong pixels of one panel of an image checked on its own.
MaxPanelStrong == 6
\* The largest min_spot_size / max_spot_size configured.
MaxSpotSize == 3
\* The largest mp_nproc, mp_njobs and mp_chunksize configured.
MaxProc == 2
MaxJobs == 2
MaxChunk == 2

\* ------------------------------------------------------ detector geometry
\* len(imageset.get_detector())
NumPanels == 2
\* height, width = im.all()
Width == 2
Height == 1
\* imageset.get_array_range()[0]
ArrayRangeStart == 0

\* ------------------------------------------------------- program constants
DefaultNproc == 1
DefaultNjobs == 1
DefaultChunksize == 1
DefaultMinSpotSize == 1
DefaultMaxSpotSize == 20

Panels == 1..NumPanels
Indices == 0..(NumFrames - 1)
Coords == (0..(Width - 1)) \X (0..(Height - 1))

\* The sum of len(im) over the panels of an image of npanels panels.
ImagePixels(npanels) == npanels * Width * Height
\* num_image: the number of pixels of one image, all panels.
NumImage == ImagePixels(NumPanels)

\* -------------------------------------------------------------- helpers
RECURSIVE SubsetsUpTo(_, _)
\* The subsets of S with at most k elements.
SubsetsUpTo(S, k) ==
  IF k = 0 THEN {{}}
  ELSE LET smaller == SubsetsUpTo(S, k - 1)
       IN  smaller \cup {T \cup {e} : T \in smaller, e \in S}

Min(S) == CHOOSE m \in S : \A n \in S : m <= n
Max(S) == CHOOSE m \in S : \A n \in S : m >= n

\* int(ceil(a / b)) and int(floor(a / b)) for a >= 0, b > 0
CeilDiv(a, b) == (a + b - 1) \div b
FloorDiv(a, b) == a \div b

\* ------------------------------------------------------------- the input
\* A strong pixel of the imageset: <<index, panel, x, y>>.
AllPixels == {<<i, p, c[1], c[2]>> : i \in Indices, p \in Panels, c \in Coords}
Imagesets == SubsetsUpTo(AllPixels, MaxStrong)
ImagesetsMask == SubsetsUpTo(AllPixels, MaxStrongMask)
ImagesetsMp == SubsetsUpTo(AllPixels, MaxStrongMp)

VARIABLES
  strong,      \* the strong pixels of the imageset: threshold mask true
  cfg,         \* the configuration the objects were constructed with
  pc,          \* where SpotFinder.__call__ stands
  mp,          \* the adjusted mp_nproc, mp_njobs, mp_chunksize
  task,        \* sequential loop: the next index of `indices`
  chunks,      \* parallel map: each chunk's state
  buffer,      \* parallel map: results of completed tasks not yet handed over
  cursor,      \* parallel map: the next index whose result is handed over
  overtaken,   \* parallel map: a chunk completed before an earlier chunk did
  labeller,    \* pixel_labeller: one PixelListLabeller per panel
  shoeboxes,   \* the shoeboxes of ExtractSpots.__call__
  counts,      \* ntoosmall, ntoolarge, the number of unallocated shoeboxes
  hot_spots,   \* the shoeboxes selected by possible_hot_spots
  hot_mask,    \* the hot mask of _find_in_imageset (None: not present)
  lookup_mask, \* imageset.external_lookup.mask.data (None: not present)
  written,     \* the mask pickle.dump wrote (not present: nothing written)
  err,         \* why the run failed, "" while it has not
  probe,       \* the arguments of a function run on its own
  answer,      \* what the function returned
  reads,       \* what reading image i gives: every panel, a panel short, a fault
  log          \* the messages logged in the controlling process, in order

vars == <<strong, cfg, pc, mp, task, chunks, buffer, cursor, overtaken, labeller,
          shoeboxes, counts, hot_spots, hot_mask, lookup_mask, written, err,
          probe, answer, reads, log>>

\* ------------------------------------------------- ExtractPixelsFromImage
\* What imageset.get_corrected_data(index) gives: an image of every panel of
\* the detector, an image of one panel fewer, or an exception.
ReadKinds == {"ok", "short", "fault"}
ImagePanels(kind) == IF kind = "short" THEN NumPanels - 1 ELSE NumPanels

\* The PixelList of every panel of image `index`: the pixels of the panel
\* whose threshold mask is true.  A sequence, one entry per panel of the image.
PixelLists(img, index, frame, npanels) ==
  [p \in 1..npanels |->
     [frame  |-> frame,
      pixels |-> {<<px[3], px[4]>> : px \in {q \in img : q[1] = index /\ q[2] = p}}]]

RECURSIVE SumLen(_)
\* num_strong: the sum of len(plist) over the pixel lists
SumLen(lists) ==
  IF lists = <<>> THEN 0 ELSE Cardinality(Head(lists).pixels) + SumLen(Tail(lists))

\* max_strong = int(ceil(max_strong_pixel_fraction * num_image)); the
\* fraction is held in tenths.  For the fractions and image sizes used here
\* the double product of the source has the same ceiling as the exact one.
MaxStrongAllowed(tenths, num_image) == CeilDiv(tenths * num_image, 10)

\* The check with >= for >.
GuardRaisesGe(tenths, num_image, num_strong) ==
  /\ tenths < 10
  /\ num_strong >= MaxStrongAllowed(tenths, num_image)

\* Lines 136-141: whether the check of the total number of strong pixels
\* raises.
GuardRaises(tenths, num_image, num_strong) ==
  /\ tenths < 10
  /\ num_strong > MaxStrongAllowed(tenths, num_image)

\* The check left out: the call never raises.
ExtractUnchecked(img, kind, tenths, index) ==
  LET lists == PixelLists(img, index, ArrayRangeStart + index, ImagePanels(kind))
  IN  [pixel_list |-> lists,
       raised     |-> FALSE,
       fault      |-> kind = "fault",
       messages   |-> <<[levelno |-> "INFO", msg |-> <<SumLen(lists), index + 1>>]>>]

\* ExtractPixelsFromImage.__call__(index): the Result with the PixelList of
\* every panel of the image, the RuntimeError of the strong-pixel check or
\* the exception of the read, and the message of line 149.
\* frame = array_range[0] + index.
Extract(img, kind, tenths, index) ==
  LET lists == PixelLists(img, index, ArrayRangeStart + index, ImagePanels(kind))
  IN  [pixel_list |-> lists,
       raised     |-> /\ kind # "fault"
                      /\ GuardRaises(tenths, ImagePixels(ImagePanels(kind)),
                                     SumLen(lists)),
       fault      |-> kind = "fault",
       messages   |-> <<[levelno |-> "INFO", msg |-> <<SumLen(lists), index + 1>>]>>]

\* The exception of the read swallowed: only the strong-pixel check raises.
TaskErrorGuardOnly(result) ==
  IF result.raised THEN "too many strong pixels" ELSE ""

\* The exception a call ends with, "" when it returns.
TaskError(result) ==
  IF result.fault THEN "task fault"
  ELSE IF result.raised THEN "too many strong pixels"
  ELSE ""

\* -------------------------------------------------------- PixelListLabeller
\* A component is a set of pixels <<x, y, z>>.
ZMax(c) == Max({px[3] : px \in c})
ZMin(c) == Min({px[3] : px \in c})

\* 4-connectivity within a frame: a shared edge in x or in y.
Touch2D(a, b) ==
  \E p \in a, q \in b :
    \/ p[1] = q[1] /\ (p[2] = q[2] + 1 \/ q[2] = p[2] + 1)
    \/ p[2] = q[2] /\ (p[1] = q[1] + 1 \/ q[1] = p[1] + 1)

RECURSIVE Merge2D(_)
Merge2D(S) ==
  IF \E a, b \in S : a # b /\ Touch2D(a, b)
  THEN LET pair == CHOOSE ab \in S \X S : ab[1] # ab[2] /\ Touch2D(ab[1], ab[2])
       IN  Merge2D((S \ {pair[1], pair[2]}) \cup {pair[1] \cup pair[2]})
  ELSE S

\* Step 1: the in-frame connected groups of a pixel list.
Groups2D(plist) == Merge2D({{px} : px \in plist})

\* Adjacency to a component whatever the frame it was last extended in.
MatchesAnyEarlier(g, c, frame) ==
  \E xy \in g, px \in c : px[1] = xy[1] /\ px[2] = xy[2] /\ px[3] < frame

\* Adjacency across frames widened to the in-plane neighbours of the group.
MatchesDiagonal(g, c, frame) ==
  /\ ZMax(c) = frame - 1
  /\ \E xy \in g, px \in c :
       /\ px[3] = frame - 1
       /\ px[1] - xy[1] \in {0 - 1, 0, 1}
       /\ px[2] - xy[2] \in {0 - 1, 0, 1}

\* Step 2: a group of frame `frame` is adjacent to an open component whose
\* z_max is frame - 1 and that holds one of the group's (x, y) in frame - 1.
Matches(g, c, frame) ==
  /\ ZMax(c) = frame - 1
  /\ \E xy \in g : <<xy[1], xy[2], frame - 1>> \in c

\* A group joined to one only of the open components it is adjacent to.
MergeProtosJoinOne(S) ==
  {[new |-> r.new,
    old |-> IF r.old = {} THEN {} ELSE {CHOOSE c \in r.old : TRUE}] : r \in S}

RECURSIVE MergeProtos(_)
\* Step 3: groups that match a common open component end in one component.
MergeProtos(S) ==
  IF \E a, b \in S : a # b /\ a.old \cap b.old # {}
  THEN LET pair == CHOOSE ab \in S \X S : ab[1] # ab[2] /\ ab[1].old \cap ab[2].old # {}
       IN  MergeProtos((S \ {pair[1], pair[2]}) \cup
                       {[new |-> pair[1].new \cup pair[2].new,
                         old |-> pair[1].old \cup pair[2].old]})
  ELSE S

Lift(g, frame) == {<<xy[1], xy[2], frame>> : xy \in g}

EmptyLabeller == [open |-> {}, closed |-> {}, frames |-> <<>>, npix |-> 0]

\* PixelListLabeller.add of a PixelList: steps 1 to 4.
LabellerAdd(L, plist) ==
  LET frame  == plist.frame
      protos == MergeProtos({[new |-> g,
                              old |-> {c \in L.open : Matches(g, c, frame)}]
                             : g \in Groups2D(plist.pixels)})
      taken  == UNION {r.old : r \in protos}
  IN  [L EXCEPT
        !.open   = (L.open \ taken) \cup
                   {Lift(r.new, frame) \cup UNION r.old : r \in protos},
        !.frames = Append(L.frames, frame),
        !.npix   = L.npix + Cardinality(plist.pixels)]

\* A flush that closes nothing.
LabellerFlushNothing(L) == L

\* flush(): every remaining open component is closed.
LabellerFlush(L) == [L EXCEPT !.open = {}, !.closed = L.closed \cup L.open]

\* ----------------------------------------------------------- configuration
AllTrue == [p \in Panels |-> [c \in Coords |-> TRUE]]
NoMask == [present |-> FALSE, data |-> AllTrue]

\* m1 & m2 over the panels of two masks
MaskAnd(m1, m2) == [p \in Panels |-> [c \in Coords |-> m1[p][c] /\ m2[p][c]]]

\* The external masks tried: at most MaxMasked pixels are false.
MaxMasked == 1
ExternalMasks ==
  {[present |-> TRUE,
    data    |-> [p \in Panels |-> [c \in Coords |-> <<p, c>> \notin bad]]]
   : bad \in SubsetsUpTo(Panels \X Coords, MaxMasked)}

\* The defaults of SpotFinder.__init__, with the strong-pixel guard off
\* (max_strong_pixel_fraction = 1) and no external mask.
BaseCfg ==
  [mp_nproc |-> DefaultNproc, mp_njobs |-> DefaultNjobs,
   mp_chunksize |-> DefaultChunksize, mp_auto |-> FALSE, mp_method |-> FALSE,
   windows |-> FALSE, fraction |-> 10,
   min_spot_size |-> DefaultMinSpotSize, max_spot_size |-> DefaultMaxSpotSize,
   write_hot_mask |-> TRUE, ext_mask |-> NoMask]

\* mp_method only matters with mp_njobs > 1, the platform only when more than
\* one process or job is asked for.
MpCfgs ==
  {[BaseCfg EXCEPT !.mp_nproc = np, !.mp_njobs = nj, !.mp_chunksize = cs,
                   !.mp_auto = au, !.mp_method = me, !.windows = wi]
   : np \in 1..MaxProc, nj \in 1..MaxJobs, cs \in 1..MaxChunk,
     au \in BOOLEAN, me \in BOOLEAN, wi \in BOOLEAN}
MpCfgsTried ==
  {c \in MpCfgs : /\ c.mp_auto => c.mp_chunksize = 1
                  /\ c.mp_method => c.mp_njobs > 1
                  /\ c.windows => (c.mp_nproc > 1 /\ c.mp_njobs = 1 /\ ~c.mp_auto)}

\* max_strong_pixel_fraction, in tenths
Fractions == {1, 5}
GuardCfgs ==
  {[BaseCfg EXCEPT !.fraction = f, !.mp_nproc = np]
   : f \in Fractions, np \in {1, MaxProc}}

SpotCfgs ==
  {[BaseCfg EXCEPT !.min_spot_size = mn, !.max_spot_size = mx]
   : mn \in 1..MaxSpotSize, mx \in 1..MaxSpotSize}

MaskCfgs ==
  {[BaseCfg EXCEPT !.ext_mask = m, !.write_hot_mask = w]
   : m \in ExternalMasks \cup {NoMask}, w \in BOOLEAN}
MaskCfgsTried == {c \in MaskCfgs : c.ext_mask.present => c.write_hot_mask}

\* One group of parameters is varied at a time: the mp parameters and the
\* fraction are read by lines 241-317 only, the spot sizes by lines 319-351
\* only, the masks by lines 428-441 and 531-557 only.

\* ------------------------------------------------ ExtractSpots.__call__
\* mp_nproc, mp_njobs and mp_chunksize as lines 241-271 change them, and the
\* assertion that fails ("" when none does).
AdjustMp(c, n) ==
  LET off    == c.windows /\ (c.mp_nproc > 1 \/ c.mp_njobs > 1)
      nproc1 == IF off THEN 1 ELSE c.mp_nproc
      njobs1 == IF off THEN 1 ELSE c.mp_njobs
      over   == nproc1 * njobs1 > n
      nproc2 == IF over THEN (IF nproc1 < n THEN nproc1 ELSE n) ELSE nproc1
      njobs2 == IF over THEN CeilDiv(n, nproc2) ELSE njobs1
      chunk1 == IF c.mp_auto THEN CeilDiv(n, njobs2 * nproc2) ELSE c.mp_chunksize
      len_by_nproc == FloorDiv(n, njobs2 * nproc2)
      chunk2 == IF chunk1 > len_by_nproc THEN len_by_nproc ELSE chunk1
  IN  [nproc |-> nproc2, njobs |-> njobs2, chunksize |-> chunk2,
       failed |-> IF ~(nproc2 > 0) THEN "Invalid number of processors"
                  ELSE IF ~(njobs2 > 0) THEN "Invalid number of jobs"
                  ELSE IF ~(njobs2 = 1 \/ c.mp_method) THEN "Invalid cluster method"
                  ELSE IF ~(chunk2 > 0) THEN "Invalid chunk size"
                  ELSE ""]

NoMp == [nproc |-> 0, njobs |-> 0, chunksize |-> 0, failed |-> ""]
NoCounts == [ntoosmall |-> 0, ntoolarge |-> 0, unallocated |-> 0]
NoProbe == [fraction |-> 10, num_image |-> <<>>, num_strong |-> <<>>]
NoAnswer == [at |-> "idle", panel |-> 1, num_strong |-> 0]

\* Every image reads as an image of every panel of the detector.
AllRead == [i \in Indices |-> "ok"]

\* The state after construction, whatever the configuration and the imageset.
Start ==
  /\ pc = "setup"
  /\ mp = NoMp
  /\ task = 0
  /\ chunks = <<>>
  /\ buffer = {}
  /\ cursor = 0
  /\ overtaken = FALSE
  /\ labeller = [p \in Panels |-> EmptyLabeller]
  /\ shoeboxes = {}
  /\ counts = NoCounts
  /\ hot_spots = {}
  /\ hot_mask = NoMask
  /\ lookup_mask = cfg.ext_mask
  /\ written = NoMask
  /\ err = ""
  /\ log = <<>>

Init ==
  /\ \/ cfg \in MpCfgsTried /\ strong \in ImagesetsMp
     \/ cfg \in GuardCfgs \cup MaskCfgsTried /\ strong \in ImagesetsMask
     \/ cfg \in SpotCfgs /\ strong \in Imagesets
  /\ reads = AllRead
  /\ Start
  /\ probe = NoProbe
  /\ answer = NoAnswer

\* The chunks of `indices`: contiguous runs of chunksize indices.
NumChunks(cs) == CeilDiv(NumFrames, cs)
ChunkIndices(k, cs) == {i \in Indices : i \div cs = k - 1}

Running == {k \in DOMAIN chunks : chunks[k] = "running"}
Pending == {k \in DOMAIN chunks : chunks[k] = "pending"}

\* The chunks as the workers leave them once the free workers, at most
\* nproc * njobs at work at a time, have taken the next chunks of the iterable.
Dispatched(ch, workers) ==
  LET pending == {k \in DOMAIN ch : ch[k] = "pending"}
      free    == workers - Cardinality({k \in DOMAIN ch : ch[k] = "running"})
  IN  [k \in DOMAIN ch |->
         IF ch[k] = "pending" /\ Cardinality({j \in pending : j < k}) < free
         THEN "running" ELSE ch[k]]

\* >= for >: the map is used with one process and one job too.
UsesParallelMapAlways(a) == a.nproc >= 1 \/ a.njobs >= 1

\* if mp_nproc > 1 or mp_njobs > 1, line 294
UsesParallelMap(a) == a.nproc > 1 \/ a.njobs > 1

\* Lines 241-294: the parameters are adjusted and asserted, the labellers
\* made, and the sequential or the parallel branch is taken.
Setup ==
  /\ pc = "setup"
  /\ LET a == AdjustMp(cfg, NumFrames)
     IN  /\ mp' = a
         /\ IF a.failed # ""
            THEN /\ pc' = "error" /\ err' = a.failed /\ chunks' = chunks
            ELSE IF UsesParallelMap(a)
            THEN /\ pc' = "parallel" /\ err' = err
                 /\ chunks' = Dispatched([k \in 1..NumChunks(a.chunksize) |-> "pending"],
                                          a.nproc * a.njobs)
            ELSE /\ pc' = "sequential" /\ err' = err /\ chunks' = chunks
  /\ UNCHANGED <<reads, probe, answer, strong, cfg, task, buffer, cursor,
                 overtaken, labeller, shoeboxes, counts, hot_spots, hot_mask,
                 lookup_mask, written, log>>

\* The add dedented out of the loop: only the last panel's list is added.
AddListsLastOnly(lab, result) ==
  [p \in Panels |->
     IF p = Len(result.pixel_list)
     THEN LabellerAdd(lab[p], result.pixel_list[p])
     ELSE lab[p]]

RECURSIVE AddEach(_, _)
AddEach(L, lists) ==
  IF lists = <<>> THEN L
  ELSE AddEach(LabellerAdd(L, Head(lists)), Tail(lists))

\* Two nested loops instead of zip: every list is added to every labeller.
AddListsEveryList(lab, result) ==
  [p \in Panels |-> AddEach(lab[p], result.pixel_list)]

\* for plabeller, plist in zip(pixel_labeller, result.pixel_list):
\*   plabeller.add(plist)
AddLists(lab, result) ==
  [p \in Panels |->
     IF p <= Len(result.pixel_list)
     THEN LabellerAdd(lab[p], result.pixel_list[p])
     ELSE lab[p]]

\* The assertion left out.
ConsistentSizeUnchecked(lab, result) == TRUE

\* assert len(pixel_labeller) == len(result.pixel_list), lines 299 and 314
ConsistentSize(lab, result) == Len(lab) = Len(result.pixel_list)

\* The messages as the controlling process logs them, each with the number of
\* frames the labellers hold when it is logged.
Emitted(messages, lab) ==
  [i \in 1..Len(messages) |->
     [levelno |-> messages[i].levelno, msg |-> messages[i].msg,
      merged  |-> Len(lab[1].frames)]]

\* Lines 312-317: one turn of the sequential loop.  The call logs its message
\* itself (line 149), before the lists are added.
SequentialStep ==
  /\ pc = "sequential"
  /\ task < NumFrames
  /\ LET result == Extract(strong, reads[task], cfg.fraction, task)
     IN  IF TaskError(result) # ""
         THEN /\ pc' = "error" /\ err' = TaskError(result)
              /\ UNCHANGED <<task, labeller, log>>
         ELSE /\ log' = log \o Emitted(result.messages, labeller)
              /\ IF ~ConsistentSize(labeller, result)
                 THEN /\ pc' = "error" /\ err' = "Inconsistent size"
                      /\ UNCHANGED <<task, labeller>>
                 ELSE /\ labeller' = AddLists(labeller, result)
                      /\ task' = task + 1
                      /\ pc' = IF task + 1 = NumFrames THEN "labelled" ELSE pc
                      /\ err' = err
  /\ UNCHANGED <<reads, probe, answer, strong, cfg, mp, chunks, buffer, cursor,
                 overtaken, shoeboxes, counts, hot_spots, hot_mask,
                 lookup_mask, written>>

\* No cancellation: the other chunks stay as they are.
NotCancelled(ch) == ch

\* The chunks after a fatal error: every chunk that has not completed is
\* cancelled.
Cancelled(ch) ==
  [k \in DOMAIN ch |-> IF ch[k] = "done" THEN "done" ELSE "cancelled"]

\* The first exception of the calls of a chunk, "" when every call returns.
ChunkError(results) ==
  LET failed == {r \in results : TaskError(r.result) # ""}
  IN  IF failed = {} THEN ""
      ELSE TaskError((CHOOSE r \in failed :
                        \A q \in failed : r.index <= q.index).result)

\* ExtractSpotsParallelTask.__call__ on every index of chunk k: a worker
\* completes its chunk, in any order among the running chunks, and takes the
\* next one.  A task that raises ends the run with its exception.
Complete(k) ==
  /\ pc = "parallel"
  /\ chunks[k] = "running"
  /\ LET results == {[index |-> i,
                      result |-> Extract(strong, reads[i], cfg.fraction, i)]
                     : i \in ChunkIndices(k, mp.chunksize)}
     IN  IF ChunkError(results) # ""
         THEN /\ pc' = "error" /\ err' = ChunkError(results)
              /\ chunks' = Cancelled(chunks)
              /\ UNCHANGED <<buffer, overtaken>>
         ELSE /\ chunks' = Dispatched([chunks EXCEPT ![k] = "done"],
                                      mp.nproc * mp.njobs)
              /\ buffer' = buffer \cup results
              /\ overtaken' = (overtaken \/ \E j \in DOMAIN chunks :
                                               j < k /\ chunks[j] # "done")
              /\ UNCHANGED <<pc, err>>
  /\ UNCHANGED <<reads, probe, answer, strong, cfg, mp, task, cursor, labeller,
                 shoeboxes, counts, hot_spots, hot_mask, lookup_mask, written,
                 log>>

\* The result the map hands to its callback next: results are handed over in
\* increasing index order, completed ones waiting for their turn.
NextResult(buf, cur) == {r \in buf : r.index = cur}

\* process_output with the lists zipped against the labellers in reverse.
ProcessOutputReversed(lab, result) ==
  [p \in Panels |->
     LabellerAdd(lab[p], result.pixel_list[Len(result.pixel_list) + 1 - p])]

\* process_output with two nested loops instead of zip.
ProcessOutputEveryList(lab, result) == AddListsEveryList(lab, result)

\* process_output(result), lines 299-301
ProcessOutput(lab, result) == AddLists(lab, result)

\* The callback is called on the next result; the map returns after the last.
\* process_output logs the messages of the task (lines 297-298), asserts the
\* size and adds the lists (lines 299-301).
HandOver ==
  /\ pc = "parallel"
  /\ \E r \in NextResult(buffer, cursor) :
       /\ buffer' = buffer \ {r}
       /\ log' = log \o Emitted(r.result.messages, labeller)
       /\ IF ~ConsistentSize(labeller, r.result)
          THEN /\ pc' = "error" /\ err' = "Inconsistent size"
               /\ chunks' = Cancelled(chunks)
               /\ UNCHANGED <<cursor, labeller>>
          ELSE /\ labeller' = ProcessOutput(labeller, r.result)
               /\ cursor' = cursor + 1
               /\ pc' = IF cursor + 1 = NumFrames THEN "labelled" ELSE pc
               /\ err' = err
               /\ chunks' = chunks
  /\ UNCHANGED <<reads, probe, answer, strong, cfg, mp, task, overtaken,
                 shoeboxes, counts, hot_spots, hot_mask, lookup_mask, written>>

\* ------------------------------------------------- PixelListShoeboxCreator
\* The box with its upper bounds inclusive.
BBoxInclusive(c) ==
  <<Min({px[1] : px \in c}), Max({px[1] : px \in c}),
    Min({px[2] : px \in c}), Max({px[2] : px \in c}),
    ZMin(c), ZMax(c)>>

\* The bounding box of a component, upper bounds exclusive (line 536 asserts
\* z1 - z0 > 0 of every shoebox).
BBox(c) ==
  <<Min({px[1] : px \in c}), Max({px[1] : px \in c}) + 1,
    Min({px[2] : px \in c}), Max({px[2] : px \in c}) + 1,
    ZMin(c), ZMax(c) + 1>>

\* Whether the creator allocates the shoebox of a component of n pixels.
Allocates(n, min_pixels, max_pixels) == n >= min_pixels /\ n <= max_pixels

\* creator.result() with creator.spot_size(): one shoebox per component of
\* the flushed labeller; its mask is set exactly at the component's pixels.
CreatorResult(L, panel, min_pixels, max_pixels) ==
  {[panel     |-> panel,
    bbox      |-> BBox(c),
    pixels    |-> c,
    spot_size |-> Cardinality(c),
    allocated |-> Allocates(Cardinality(c), min_pixels, max_pixels)]
   : c \in LabellerFlush(L).closed}

\* Lines 319-336: the shoeboxes of every panel that holds a pixel.
CreateShoeboxes ==
  /\ pc = "labelled"
  /\ labeller' = [p \in Panels |->
                    IF labeller[p].npix > 0 THEN LabellerFlush(labeller[p])
                    ELSE labeller[p]]
  /\ shoeboxes' = UNION {CreatorResult(labeller[p], p, cfg.min_spot_size,
                                       cfg.max_spot_size)
                         : p \in {q \in Panels : labeller[q].npix > 0}}
  /\ pc' = "created"
  /\ UNCHANGED <<log, reads, probe, answer, strong, cfg, mp, task, chunks, buffer, cursor,
                 overtaken, counts, hot_spots, hot_mask, lookup_mask, written,
                 err>>

\* The selection left out: every shoebox is kept.
SelectAll(boxes) == boxes

\* shoeboxes.select(shoeboxes.is_allocated()), lines 341-342
SelectAllocated(boxes) == {s \in boxes : s.allocated}
\* lines 343-344
NTooSmall(boxes, min_spot_size) ==
  Cardinality({s \in boxes : s.spot_size < min_spot_size})
NTooLarge(boxes, max_spot_size) ==
  Cardinality({s \in boxes : s.spot_size > max_spot_size})

\* Lines 340-354: the unallocated shoeboxes are dropped and counted.
CountAndSelect ==
  /\ pc = "created"
  /\ LET c == [ntoosmall   |-> NTooSmall(shoeboxes, cfg.min_spot_size),
               ntoolarge   |-> NTooLarge(shoeboxes, cfg.max_spot_size),
               unallocated |-> Cardinality({s \in shoeboxes : ~s.allocated})]
     IN  /\ counts' = c
         /\ shoeboxes' = SelectAllocated(shoeboxes)
         /\ IF c.ntoosmall + c.ntoolarge = c.unallocated
            THEN pc' = "extracted" /\ err' = err
            ELSE pc' = "error" /\ err' = "ntoosmall + ntoolarge"
  /\ UNCHANGED <<log, reads, probe, answer, strong, cfg, mp, task, chunks, buffer, cursor,
                 overtaken, labeller, hot_spots, hot_mask, lookup_mask, written>>

\* ------------------------------------------- SpotFinder._find_in_imageset
\* zr = z1 - z0 of a shoebox, lines 533-535
ZRange(s) == s.bbox[6] - s.bbox[5]

\* The comparison off by one frame.
PossibleHotSpotsAtLeast(boxes, n) == {s \in boxes : ZRange(s) >= n - 1}

\* possible_hot_spots = (zr == len(imageset)), line 537
PossibleHotSpots(boxes, n) == {s \in boxes : ZRange(s) = n}

\* any for all: the mask is set in some frame of the box.
MaskAnyNe0(s, xy) ==
  /\ xy[1] >= s.bbox[1] /\ xy[1] < s.bbox[2]
  /\ xy[2] >= s.bbox[3] /\ xy[2] < s.bbox[4]
  /\ \E z \in s.bbox[5]..(s.bbox[6] - 1) : <<xy[1], xy[2], z>> \in s.pixels

\* m[:,y:y+1,x:x+1].all_ne(0) at the pixel <<x, y>> of the panel, lines
\* 547-552: the pixel is inside the box and the mask is set in every frame.
MaskAllNe0(s, xy) ==
  /\ xy[1] >= s.bbox[1] /\ xy[1] < s.bbox[2]
  /\ xy[2] >= s.bbox[3] /\ xy[2] < s.bbox[4]
  /\ \A z \in s.bbox[5]..(s.bbox[6] - 1) : <<xy[1], xy[2], z>> \in s.pixels

\* Lines 542-553: every pixel is True but those of the hot shoeboxes.
HotMaskOf(hot) ==
  [p \in Panels |->
     [c \in Coords |-> ~(\E s \in hot : s.panel = p /\ MaskAllNe0(s, c))]]

\* Lines 516-557.  The centroids, the intensities and filter_spots do not
\* change the hot mask.
FindHotPixels ==
  /\ pc = "extracted"
  /\ IF cfg.write_hot_mask
     THEN IF \E s \in shoeboxes : ~(ZRange(s) > 0)
          THEN /\ pc' = "error" /\ err' = "zr.all_gt(0)"
               /\ UNCHANGED <<hot_spots, hot_mask>>
          ELSE /\ hot_spots' = PossibleHotSpots(shoeboxes, NumFrames)
               /\ hot_mask' = [present |-> TRUE, data |-> HotMaskOf(hot_spots')]
               /\ pc' = "found" /\ err' = err
     ELSE /\ pc' = "found" /\ err' = err
          /\ UNCHANGED <<hot_spots, hot_mask>>
  /\ UNCHANGED <<log, reads, probe, answer, strong, cfg, mp, task, chunks, buffer, cursor,
                 overtaken, labeller, shoeboxes, counts, lookup_mask, written>>

\* ------------------------------------------------------ SpotFinder.__call__
\* imageset.external_lookup.mask.data after lines 430-436
StoredMask(external, hot) ==
  IF external.present
  THEN [present |-> TRUE, data |-> MaskAnd(external.data, hot.data)]
  ELSE hot

\* The mask handed to pickle.dump, line 441
DumpedMask(external, hot) == hot

\* Lines 428-441
WriteHotMask ==
  /\ pc = "found"
  /\ IF cfg.write_hot_mask
     THEN /\ lookup_mask' = StoredMask(lookup_mask, hot_mask)
          /\ written' = DumpedMask(lookup_mask, hot_mask)
     ELSE UNCHANGED <<lookup_mask, written>>
  /\ pc' = "done"
  /\ UNCHANGED <<log, reads, probe, answer, strong, cfg, mp, task, chunks, buffer, cursor,
                 overtaken, labeller, shoeboxes, counts, hot_spots, hot_mask,
                 err>>

Next ==
  \/ Setup
  \/ SequentialStep
  \/ \E k \in DOMAIN chunks : Complete(k)
  \/ HandOver
  \/ CreateShoeboxes
  \/ CountAndSelect
  \/ FindHotPixels
  \/ WriteHotMask

Spec == Init /\ [][Next]_vars

\* ------------------------------------------ runs over images that fail
\* The runs in which the read of an image raises or gives an image of one
\* panel fewer than the detector has, or a frame is saturated: each frame is
\* dark or has every pixel strong, at most MaxBadReads images do not read as
\* they should, and one or more processes and jobs are asked for.
MaxBadReads == 1
Saturated(F) == {px \in AllPixels : px[1] \in F}
ImagesetsFault == {Saturated(F) : F \in SUBSET Indices}
ReadsTried ==
  {r \in [Indices -> ReadKinds] :
     Cardinality({i \in Indices : r[i] # "ok"}) <= MaxBadReads}
FaultCfgs ==
  {[BaseCfg EXCEPT !.mp_nproc = np, !.mp_njobs = nj, !.mp_method = (nj > 1),
                   !.fraction = f]
   : np \in 1..MaxProc, nj \in 1..MaxJobs, f \in {1, 10}}

InitFault ==
  /\ cfg \in FaultCfgs
  /\ strong \in ImagesetsFault
  /\ reads \in ReadsTried
  /\ Start
  /\ probe = NoProbe
  /\ answer = NoAnswer

SpecFault == InitFault /\ [][Next]_vars

\* ------------------------- ExtractPixelsFromImage.__call__ on one image
\* The strong-pixel check of one image on its own: the panels' sizes
\* len(im), the panels' numbers of strong pixels len(plist) and the fraction
\* are the probe; the panels are counted one by one, then the check is made.
PanelSizes == {5, 50}
GuardTenths == 1..10

RECURSIVE SumSeq(_)
SumSeq(q) == IF q = <<>> THEN 0 ELSE Head(q) + SumSeq(Tail(q))

Probes ==
  {[fraction |-> f, num_image |-> <<a, b>>, num_strong |-> <<m, n>>]
   : f \in GuardTenths, a \in PanelSizes, b \in PanelSizes,
     m \in 0..MaxPanelStrong, n \in 0..MaxPanelStrong}

InitGuard ==
  /\ cfg = BaseCfg
  /\ strong = {}
  /\ reads = AllRead
  /\ Start
  /\ probe \in {q \in Probes : \A i \in 1..Len(q.num_image) :
                                 q.num_strong[i] <= q.num_image[i]}
  /\ answer = [at |-> "loop", panel |-> 1, num_strong |-> 0]

\* Lines 110-133: num_strong += len(plist), one panel of the image.
CountPanel ==
  /\ answer.at = "loop"
  /\ answer.panel <= Len(probe.num_strong)
  /\ answer' = [answer EXCEPT !.num_strong = @ + probe.num_strong[answer.panel],
                              !.panel = @ + 1]
  /\ UNCHANGED <<strong, cfg, pc, mp, task, chunks, buffer, cursor, overtaken,
                 labeller, shoeboxes, counts, hot_spots, hot_mask, lookup_mask,
                 written, err, probe, reads, log>>

\* Lines 135-152: num_image is summed over the panels, the check is made and
\* the call raises or returns.
CheckStrong ==
  /\ answer.at = "loop"
  /\ answer.panel > Len(probe.num_strong)
  /\ answer' = [answer EXCEPT !.at =
                  IF GuardRaises(probe.fraction, SumSeq(probe.num_image),
                                 answer.num_strong)
                  THEN "raised" ELSE "returned"]
  /\ UNCHANGED <<strong, cfg, pc, mp, task, chunks, buffer, cursor, overtaken,
                 labeller, shoeboxes, counts, hot_spots, hot_mask, lookup_mask,
                 written, err, probe, reads, log>>

NextGuard ==
  \/ CountPanel
  \/ CheckStrong

SpecGuard == InitGuard /\ [][NextGuard]_vars

\* ------------------------------ one panel's labeller and creator alone
\* The pixel lists of one panel, one per frame, are the probe: they are added
\* to a labeller frame by frame (lines 315-316) and the shoeboxes are made
\* (lines 326-336).  The pixels lie in a patch of a 5 x 5 panel.
PatchFrames == 3
MaxListPixels == 3
PatchCoords == {<<2, 2>>, <<2, 3>>, <<3, 2>>, <<3, 3>>}
PatchLists ==
  UNION {[1..n -> SubsetsUpTo(PatchCoords, MaxListPixels)] : n \in 1..PatchFrames}

InitBox ==
  /\ cfg = BaseCfg
  /\ strong = {}
  /\ reads = AllRead
  /\ Start
  /\ probe \in {[lists |-> q] : q \in PatchLists}
  /\ answer = [at |-> "add", lab |-> EmptyLabeller, boxes |-> {}]

\* plabeller.add(plist) of the next frame, line 316
BoxAdd ==
  /\ answer.at = "add"
  /\ Len(answer.lab.frames) < Len(probe.lists)
  /\ LET k == Len(answer.lab.frames)
     IN  answer' = [answer EXCEPT !.lab =
                      LabellerAdd(@, [frame  |-> ArrayRangeStart + k,
                                      pixels |-> probe.lists[k + 1]])]
  /\ UNCHANGED <<strong, cfg, pc, mp, task, chunks, buffer, cursor, overtaken,
                 labeller, shoeboxes, counts, hot_spots, hot_mask, lookup_mask,
                 written, err, probe, reads, log>>

\* creator.result() after the last frame, lines 326-336
BoxCreate ==
  /\ answer.at = "add"
  /\ Len(answer.lab.frames) = Len(probe.lists)
  /\ answer' = [answer EXCEPT
                  !.at = "created",
                  !.lab = LabellerFlush(@),
                  !.boxes = IF answer.lab.npix > 0
                            THEN CreatorResult(answer.lab, 1, cfg.min_spot_size,
                                               cfg.max_spot_size)
                            ELSE {}]
  /\ UNCHANGED <<strong, cfg, pc, mp, task, chunks, buffer, cursor, overtaken,
                 labeller, shoeboxes, counts, hot_spots, hot_mask, lookup_mask,
                 written, err, probe, reads, log>>

NextBox ==
  \/ BoxAdd
  \/ BoxCreate

SpecBox == InitBox /\ [][NextBox]_vars

\* ------------------- ExtractPixelsFromImage.__call__: masks and threshold
\* One image of one panel, CropWidth x CropHeight pixels, is the probe: its
\* bright pixels, the pixels its own mask has false, the static mask
\* (self.mask) and the region of interest.  An array is the set of its true
\* pixels with its width and height.
CropWidth == 2
CropHeight == 2
MaxBright == 2
MaxInvalid == 1
CropCoords == (0..(CropWidth - 1)) \X (0..(CropHeight - 1))

Array(w, h, on) == [w |-> w, h |-> h, on |-> on]

\* a[y0:y1, x0:x1] for 0 <= x0 < x1 <= a.w and 0 <= y0 < y1 <= a.h
Slice(a, x0, x1, y0, y1) ==
  Array(x1 - x0, y1 - y0,
        {<<c[1] - x0, c[2] - y0>> :
           c \in {d \in a.on : /\ x0 <= d[1] /\ d[1] < x1
                                /\ y0 <= d[2] /\ d[2] < y1}})

\* The threshold strategy tried: a pixel is strong when it is valid and
\* brighter than the mean of the valid pixels of the array it is given.
ComputeThreshold(im, mk) ==
  Array(im.w, im.h,
        {c \in im.on \cap mk.on : \E d \in mk.on : d \notin im.on})

\* The crop put at the origin of the image instead of at (x0, y0).
PlaceBackAtOrigin(tm_roi, x0, y0, w, h) == Array(w, h, tm_roi.on)

\* threshold_mask = flex.bool(im.accessor(), False);
\* threshold_mask[y0:y1, x0:x1] = tm_roi, lines 123-124
PlaceBack(tm_roi, x0, y0, w, h) ==
  Array(w, h, {<<c[1] + x0, c[2] + y0>> : c \in tm_roi.on})

\* The assertion of lines 114-119 that fails, "" when none does.
RoiError(roi, width, height) ==
  IF ~(roi.x0 < roi.x1) THEN "x0 < x1"
  ELSE IF ~(roi.y0 < roi.y1) THEN "y0 < y1"
  ELSE IF ~(roi.x0 >= 0) THEN "x0 >= 0"
  ELSE IF ~(roi.y0 >= 0) THEN "y0 >= 0"
  ELSE IF ~(roi.x1 <= width) THEN "x1 <= width"
  ELSE IF ~(roi.y1 <= height) THEN "y1 <= height"
  ELSE ""

\* Lines 111-126: the threshold mask of a panel.
ThresholdMask(im, mk, roi) ==
  IF roi.present
  THEN PlaceBack(ComputeThreshold(Slice(im, roi.x0, roi.x1, roi.y0, roi.y1),
                                  Slice(mk, roi.x0, roi.x1, roi.y0, roi.y1)),
                 roi.x0, roi.y0, im.w, im.h)
  ELSE ComputeThreshold(im, mk)

\* The static mask ignored.
CombinedMaskImageOnly(mk, static) == mk

\* Lines 104-106: mask = m1 & m2 when self.mask is not None
CombinedMask(mk, static) ==
  IF static.present THEN Array(mk.w, mk.h, mk.on \cap static.data.on) ELSE mk

NoRoi == [present |-> FALSE, x0 |-> 0, x1 |-> 0, y0 |-> 0, y1 |-> 0]
RoisTried ==
  {NoRoi} \cup
  {[present |-> TRUE, x0 |-> x0, x1 |-> x1, y0 |-> y0, y1 |-> y1]
   : x0 \in (0 - 1)..(CropWidth - 1), x1 \in 1..(CropWidth + 1),
     y0 \in (0 - 1)..(CropHeight - 1), y1 \in 1..(CropHeight + 1)}

MasksTried ==
  {Array(CropWidth, CropHeight, CropCoords \ bad)
   : bad \in SubsetsUpTo(CropCoords, MaxInvalid)}

MaskProbes ==
  {[im |-> Array(CropWidth, CropHeight, b), mk |-> m, static |-> st, roi |-> r]
   : b \in SubsetsUpTo(CropCoords, MaxBright), m \in MasksTried,
     st \in {[present |-> FALSE, data |-> Array(CropWidth, CropHeight, CropCoords)]}
            \cup {[present |-> TRUE, data |-> d] : d \in MasksTried},
     r \in RoisTried}

InitMask ==
  /\ cfg = BaseCfg
  /\ strong = {}
  /\ reads = AllRead
  /\ Start
  /\ probe \in MaskProbes
  /\ answer = [at |-> "read", mask |-> Array(0, 0, {}),
               threshold_mask |-> Array(0, 0, {}), plist |-> {}, err |-> ""]

\* Lines 99-106: the image and its mask are read, the static mask applied.
ReadImage ==
  /\ answer.at = "read"
  /\ answer' = [answer EXCEPT !.at = "panel",
                              !.mask = CombinedMask(probe.mk, probe.static)]
  /\ UNCHANGED <<strong, cfg, pc, mp, task, chunks, buffer, cursor, overtaken,
                 labeller, shoeboxes, counts, hot_spots, hot_mask, lookup_mask,
                 written, err, probe, reads, log>>

\* Lines 110-133 for the panel: the assertions of the region of interest,
\* the threshold mask and the PixelList of its true pixels.
ThresholdPanel ==
  /\ answer.at = "panel"
  /\ IF probe.roi.present /\ RoiError(probe.roi, probe.im.w, probe.im.h) # ""
     THEN answer' = [answer EXCEPT !.at = "error",
                       !.err = RoiError(probe.roi, probe.im.w, probe.im.h)]
     ELSE LET tm == ThresholdMask(probe.im, answer.mask, probe.roi)
          IN  answer' = [answer EXCEPT !.at = "done", !.threshold_mask = tm,
                                       !.plist = tm.on]
  /\ UNCHANGED <<strong, cfg, pc, mp, task, chunks, buffer, cursor, overtaken,
                 labeller, shoeboxes, counts, hot_spots, hot_mask, lookup_mask,
                 written, err, probe, reads, log>>

NextMask ==
  \/ ReadImage
  \/ ThresholdPanel

SpecMask == InitMask /\ [][NextMask]_vars

\* ------------- ExtractPixelsFromImage: the state its invocations touch
\* The workers of the parallel map each call the extractor for one index at
\* a time.  An invocation reads and writes self.first and, through
\* self.imageset.reader(), the reader's format instance.  acc[w] is what the
\* invocation running on worker w has accessed so far: <<copy, field, mode>>.
\* Copy 0 is what the workers inherit from the controlling process and keep
\* in common: the file handle of a format instance opened before the workers
\* were started.
Workers == 1..MaxProc

\* self.first ignored: the format instance is never nullified.
AfterCheckNoNullify(first, single_file) == IF first THEN "clear" ELSE "read"

\* Lines 80-84: where the invocation goes after reading self.first.
AfterCheck(first, single_file) ==
  IF first THEN (IF single_file THEN "nullify" ELSE "clear") ELSE "read"

\* Every worker uses one and the same extractor object and imageset.
CopyOfShared(w) == 1

\* The copy of the extractor (and of the imageset it holds) that worker w
\* calls: the workers are processes, each with its own copy.
CopyOf(w) == w

InitShare ==
  /\ cfg = BaseCfg
  /\ strong = {}
  /\ reads = AllRead
  /\ Start
  /\ probe \in {[single_file |-> b, opened |-> o] : b, o \in BOOLEAN}
  /\ answer = [first  |-> [o \in Workers |-> TRUE],
               format |-> [o \in Workers |->
                            IF probe.opened THEN "inherited" ELSE "null"],
               at     |-> [w \in Workers |-> "idle"],
               index  |-> [w \in Workers |-> 0],
               acc    |-> [w \in Workers |-> {}],
               next   |-> 0]

ShareUnchanged ==
  UNCHANGED <<strong, cfg, pc, mp, task, chunks, buffer, cursor, overtaken,
              labeller, shoeboxes, counts, hot_spots, hot_mask, lookup_mask,
              written, err, probe, reads, log>>

\* The parallel map gives the next index to an idle worker.
Dispatch(w) ==
  /\ answer.at[w] = "idle"
  /\ answer.next < NumFrames
  /\ answer' = [answer EXCEPT !.at[w] = "check", !.index[w] = answer.next,
                              !.next = @ + 1, !.acc[w] = {}]
  /\ ShareUnchanged

\* Line 80: if self.first
CheckFirst(w) ==
  /\ answer.at[w] = "check"
  /\ answer' = [answer EXCEPT
       !.acc[w] = @ \cup {<<CopyOf(w), "first", "r">>},
       !.at[w]  = AfterCheck(answer.first[CopyOf(w)], probe.single_file)]
  /\ ShareUnchanged

\* Lines 82-83: self.imageset.reader().nullify_format_instance()
Nullify(w) ==
  /\ answer.at[w] = "nullify"
  /\ answer' = [answer EXCEPT
       !.format[CopyOf(w)] = "null",
       !.acc[w] = @ \cup {<<CopyOf(w), "format", "w">>},
       !.at[w]  = "clear"]
  /\ ShareUnchanged

\* Line 84: self.first = False
ClearFirst(w) ==
  /\ answer.at[w] = "clear"
  /\ answer' = [answer EXCEPT
       !.first[CopyOf(w)] = FALSE,
       !.acc[w] = @ \cup {<<CopyOf(w), "first", "w">>},
       !.at[w]  = "read"]
  /\ ShareUnchanged

\* Lines 100-101: the image and the mask are read through the reader.  A
\* single-file reader opens its format instance when it has none, and reads
\* through the file handle of the instance, moving the handle's position;
\* any other reader opens the file of the image for the read alone.
ReadFrame(w) ==
  /\ answer.at[w] = "read"
  /\ answer' = [answer EXCEPT
       !.format[CopyOf(w)] =
          IF probe.single_file /\ @ = "null" THEN "own" ELSE @,
       !.acc[w] = @ \cup {<<CopyOf(w), "format", "r">>} \cup
          (IF ~probe.single_file THEN {}
           ELSE IF answer.format[CopyOf(w)] = "null"
                THEN {<<CopyOf(w), "format", "w">>, <<CopyOf(w), "handle", "w">>}
           ELSE IF answer.format[CopyOf(w)] = "inherited"
                THEN {<<0, "handle", "w">>}
           ELSE {<<CopyOf(w), "handle", "w">>}),
       !.at[w]  = "return"]
  /\ ShareUnchanged

\* Line 152: return Result(pixel_list); the worker is idle again.
Return(w) ==
  /\ answer.at[w] = "return"
  /\ answer' = [answer EXCEPT !.at[w] = "idle", !.acc[w] = {}]
  /\ ShareUnchanged

NextShare ==
  \/ \E w \in Workers : Dispatch(w)
  \/ \E w \in Workers : CheckFirst(w)
  \/ \E w \in Workers : Nullify(w)
  \/ \E w \in Workers : ClearFirst(w)
  \/ \E w \in Workers : ReadFrame(w)
  \/ \E w \in Workers : Return(w)

SpecShare == InitShare /\ [][NextShare]_vars

\* --------------- ExtractPixelsFromImage.__call__: the frame number
\* The probe is an imageset, a sweep or not, with its indices, and the index
\* of the image asked for.
MaxIndices == 3
MaxIndexValue == 3

\* zip(ind[0:-1], ind[1:-1]): ind[1:-1] leaves out the first and the last
\* index, and zip stops at the shorter list.
ZippedPairs(ind) == {<<ind[i], ind[i + 1]>> : i \in 1..(Len(ind) - 2)}

\* Lines 91-93: whether the assertion on the indices fails.
IndicesAssertFails(ind) ==
  Len(ind) > 1 /\ \E pair \in ZippedPairs(ind) : pair[1] + 1 # pair[2]

FrameProbes ==
  {[sweep |-> sw, ind |-> ind, index |-> i]
   : sw \in BOOLEAN,
     ind \in UNION {[1..n -> 0..MaxIndexValue] : n \in 1..MaxIndices},
     i \in 0..(MaxIndices - 1)}

InitFrame ==
  /\ cfg = BaseCfg
  /\ strong = {}
  /\ reads = AllRead
  /\ Start
  /\ probe \in {q \in FrameProbes : q.index < Len(q.ind)}
  /\ answer = [at |-> "call", frame |-> 0]

\* Lines 87-94: the frame number of the image.
GetFrame ==
  /\ answer.at = "call"
  /\ answer' =
       IF probe.sweep
       THEN [at |-> "frame", frame |-> ArrayRangeStart + probe.index]
       ELSE IF IndicesAssertFails(probe.ind)
       THEN [at |-> "error", frame |-> 0]
       ELSE [at |-> "frame", frame |-> probe.ind[probe.index + 1]]
  /\ UNCHANGED <<strong, cfg, pc, mp, task, chunks, buffer, cursor, overtaken,
                 labeller, shoeboxes, counts, hot_spots, hot_mask, lookup_mask,
                 written, err, probe, reads, log>>

NextFrame ==
  \/ GetFrame

SpecFrame == InitFrame /\ [][NextFrame]_vars

\* ------------------------------- SpotFinder._find_in_imageset: scan ranges
\* The probe is self.scan_range: no range, or a list of one or two ranges
\* (j0, j1), first and last image counted from 1.
MaxScanRange == <<ArrayRangeStart, ArrayRangeStart + NumFrames>>

ScanRanges == {<<j0, j1>> : j0 \in 0..NumFrames, j1 \in 1..NumFrames}

ScanRangesTried ==
  {<<>>} \cup {<<r>> : r \in ScanRanges}
         \cup {<<r1, r2>> : r1 \in ScanRanges, r2 \in ScanRanges}

\* Lines 499-502: the whole scan when no range is given.
ScanRangeList(scan_range) ==
  IF scan_range = <<>> THEN <<<<MaxScanRange[1] + 1, MaxScanRange[2]>>>>
  ELSE scan_range

\* Line 508: whether the assertion on the range passes.
ScanRangeOk(scan) ==
  scan[2] >= scan[1] /\ scan[1] > MaxScanRange[1] /\ scan[2] <= MaxScanRange[2]

RECURSIVE RangeLabellers(_, _, _)
\* The labellers of extract_spots(imageset[j0:j1]) after the images j0 to
\* j - 1 of the imageset were added, in order, to new labellers.
RangeLabellers(img, j0, j) ==
  IF j <= j0 THEN [p \in Panels |-> EmptyLabeller]
  ELSE AddLists(RangeLabellers(img, j0, j - 1), Extract(img, "ok", 10, j - 1))

\* Lines 510-514: extract_spots(imageset[j0:j1]) for the range (j0, j1), the
\* shoeboxes it returns kept with the place of the range in the list.
ScanSpots(img, scan, k, min_pixels, max_pixels) ==
  LET j0  == scan[1] - 1 - ArrayRangeStart
      j1  == scan[2] - ArrayRangeStart
      lab == RangeLabellers(img, j0, j1)
  IN  {[scan |-> k, box |-> s]
       : s \in SelectAllocated(
           UNION {CreatorResult(lab[p], p, min_pixels, max_pixels)
                  : p \in {q \in Panels : lab[q].npix > 0}})}

InitScan ==
  /\ cfg = BaseCfg
  /\ strong \in ImagesetsMp
  /\ reads = AllRead
  /\ Start
  /\ probe \in {[scan_range |-> q] : q \in ScanRangesTried}
  /\ answer = [at |-> "scan", done |-> 0, spots_all |-> {}, hot |-> {}]

ScanUnchanged ==
  UNCHANGED <<strong, cfg, pc, mp, task, chunks, buffer, cursor, overtaken,
              labeller, shoeboxes, counts, hot_spots, hot_mask, lookup_mask,
              written, err, probe, reads, log>>

\* Lines 506-514: one turn of the loop over the scan ranges.
ScanNext ==
  /\ answer.at = "scan"
  /\ answer.done < Len(ScanRangeList(probe.scan_range))
  /\ LET scan == ScanRangeList(probe.scan_range)[answer.done + 1]
     IN  answer' =
           IF ~ScanRangeOk(scan) THEN [answer EXCEPT !.at = "error"]
           ELSE [answer EXCEPT
                   !.done = @ + 1,
                   !.spots_all = @ \cup ScanSpots(strong, scan, answer.done + 1,
                                                   cfg.min_spot_size,
                                                   cfg.max_spot_size)]
  /\ ScanUnchanged

\* Lines 531-539: the possible hot spots among the shoeboxes of all ranges.
ScanFindHot ==
  /\ answer.at = "scan"
  /\ answer.done = Len(ScanRangeList(probe.scan_range))
  /\ answer' = [answer EXCEPT
       !.at  = "found",
       !.hot = {t \in answer.spots_all :
                  t.box \in PossibleHotSpots({t.box}, NumFrames)}]
  /\ ScanUnchanged

NextScan ==
  \/ ScanNext
  \/ ScanFindHot

SpecScan == InitScan /\ [][NextScan]_vars

\* ------------------------------------ integrate.py: Script.process_reference
\* The probe is the reference table: None, or its rows in order.  A row has
\* its number in the input, whether it is flagged indexed, whether its
\* Miller index is (0,0,0), and whether its id is negative.
MaxReflections == 3

RowKinds == [indexed : BOOLEAN, hkl_zero : BOOLEAN, id_negative : BOOLEAN]

TableOf(kinds) ==
  [i \in 1..Len(kinds) |->
     [row |-> i, indexed |-> kinds[i].indexed, hkl_zero |-> kinds[i].hkl_zero,
      id_negative |-> kinds[i].id_negative]]

ReferenceTables ==
  {TableOf(kinds) : kinds \in UNION {[1..n -> RowKinds] : n \in 0..MaxReflections}}

\* table.select(flags) keeps the rows the flags hold of, in order: SelectSeq.
Indexed(r) == r.indexed
Unindexed(r) == ~r.indexed
HklZero(r) == r.hkl_zero
HklNonZero(r) == ~r.hkl_zero

\* Lines 301-332
ProcessReferenceResult(reference) ==
  IF reference.none THEN [at |-> "none", reference |-> <<>>, rubbish |-> <<>>]
  ELSE IF ~reference.columns
  THEN [at |-> "raised", reference |-> <<>>, rubbish |-> <<>>]
  ELSE
    LET rubbish1   == SelectSeq(reference.rows, Unindexed)
        reference1 == SelectSeq(reference.rows, Indexed)
    IN  IF Len(reference1) = 0
        THEN [at |-> "raised", reference |-> <<>>, rubbish |-> <<>>]
        ELSE
          LET rubbish2   == rubbish1 \o SelectSeq(reference1, HklZero)
              reference2 == SelectSeq(reference1, HklNonZero)
          IN  IF \E i \in 1..Len(reference2) : reference2[i].id_negative
              THEN [at |-> "raised", reference |-> <<>>, rubbish |-> <<>>]
              ELSE [at |-> "returned", reference |-> reference2,
                    rubbish |-> rubbish2]

InitReference ==
  /\ cfg = BaseCfg
  /\ strong = {}
  /\ reads = AllRead
  /\ Start
  /\ probe \in {[none |-> TRUE, columns |-> TRUE, rows |-> <<>>]}
        \cup {[none |-> FALSE, columns |-> col, rows |-> t]
               : col \in BOOLEAN, t \in ReferenceTables}
  /\ answer = [at |-> "call", reference |-> <<>>, rubbish |-> <<>>]

ProcessReference ==
  /\ answer.at = "call"
  /\ answer' = ProcessReferenceResult(probe)
  /\ UNCHANGED <<strong, cfg, pc, mp, task, chunks, buffer, cursor, overtaken,
                 labeller, shoeboxes, counts, hot_spots, hot_mask, lookup_mask,
                 written, err, probe, reads, log>>

NextReference ==
  \/ ProcessReference

SpecReference == InitReference /\ [][NextReference]_vars

\* =================================================================== claims
Parallel == mp.nproc > 1 \/ mp.njobs > 1
AfterLabelling == {"labelled", "created", "extracted", "found", "done"}
AfterCreation == {"created", "extracted", "found", "done"}
AfterExtraction == {"extracted", "found", "done"}

\* The pixels <<x, y, frame>> of panel p in the imageset.
InputPixels(img, p) == {<<px[3], px[4], px[1]>> : px \in {q \in img : q[2] = p}}

\* C1: in a run with more than one worker or job, whatever the order in
\* which the workers complete their chunks, the frames handed to each
\* panel's labeller are 0, 1, ... in this order, each once, and all of
\* 0 .. n-1 once the map has returned.
C1_FramesInOrder ==
  (pc # "setup" /\ Parallel) =>
    \A p \in Panels :
      /\ \A i \in 1..Len(labeller[p].frames) : labeller[p].frames[i] = i - 1
      /\ Len(labeller[p].frames) = cursor
      /\ pc \in AfterLabelling => Len(labeller[p].frames) = NumFrames

\* C1 witness: the map has returned after a chunk overtook an earlier one.
C1_Witness == pc = "labelled" /\ Parallel /\ overtaken

RECURSIVE SequentialLabellers(_, _)
\* The labellers after the sequential loop of lines 312-317 over the indices
\* 0 .. n-1.
SequentialLabellers(img, n) ==
  IF n = 0 THEN [p \in Panels |-> EmptyLabeller]
  ELSE AddLists(SequentialLabellers(img, n - 1), Extract(img, "ok", 10, n - 1))

SequentialShoeboxes(img, min_pixels, max_pixels) ==
  LET lab == SequentialLabellers(img, NumFrames)
  IN  UNION {CreatorResult(lab[p], p, min_pixels, max_pixels)
             : p \in {q \in Panels : lab[q].npix > 0}}

\* C2: a run whose chunk results arrive out of submission order ends with the
\* components and the shoeboxes of the sequential run over frames 0 .. n-1.
C2_SameAsSequential ==
  (Parallel /\ pc \in {"labelled", "created"}) =>
    /\ pc = "labelled" =>
         \A p \in Panels :
           labeller[p].open = SequentialLabellers(strong, NumFrames)[p].open
    /\ pc = "created" =>
         shoeboxes = SequentialShoeboxes(strong, cfg.min_spot_size,
                                         cfg.max_spot_size)

\* C2 witness: shoeboxes were made, one of a component of two frames, after a
\* chunk overtook an earlier one.
C2_Witness ==
  /\ pc = "created" /\ Parallel /\ overtaken
  /\ \E s \in shoeboxes : s.bbox[6] - s.bbox[5] = 2

\* C3: once the frames were added in increasing order and the labeller was
\* flushed, the closed components of a panel hold exactly the pixels of the
\* panel's pixel lists, and no pixel is in two components.
C3_PixelsKept ==
  pc \in AfterCreation =>
    \A p \in Panels :
      /\ UNION labeller[p].closed = InputPixels(strong, p)
      /\ labeller[p].open = {}
      /\ \A c1, c2 \in labeller[p].closed : c1 # c2 => c1 \cap c2 = {}

\* C3 witness: a panel ends with two closed components, one of them grown
\* over two frames.
C3_Witness ==
  /\ pc = "created"
  /\ \E p \in Panels :
       /\ Cardinality(labeller[p].closed) = 2
       /\ \E c \in labeller[p].closed : ZMax(c) > ZMin(c) /\ Cardinality(c) = 3

\* C4: after every add, no two open components of a panel share a pixel.
C4_OpenDisjoint ==
  \A p \in Panels :
    \A c1, c2 \in labeller[p].open : c1 # c2 => c1 \cap c2 = {}

\* C4 witness: two components are open in a panel after the third frame was
\* added, one of them grown over the first two frames.
C4_Witness ==
  \E p \in Panels :
    /\ Len(labeller[p].frames) = 3
    /\ Cardinality(labeller[p].open) = 2
    /\ \E c \in labeller[p].open : ZMin(c) = 0 /\ ZMax(c) = 1

\* The closed components of all panels, each with its panel.
ClosedComponents == UNION {{<<p, c>> : c \in labeller[p].closed} : p \in Panels}

\* C5: once the extraction has returned, a closed component of n pixels has
\* an accepted shoebox if and only if min_spot_size <= n <= max_spot_size;
\* the components below min_spot_size are counted too small and those above
\* max_spot_size too large.
C5_AcceptedIffInRange ==
  pc \in AfterExtraction =>
    /\ \A p \in Panels : \A c \in labeller[p].closed :
         (\E s \in shoeboxes : s.panel = p /\ s.pixels = c)
           <=> (cfg.min_spot_size <= Cardinality(c)
                /\ Cardinality(c) <= cfg.max_spot_size)
    /\ \A s \in shoeboxes : s.pixels \in labeller[s.panel].closed
    /\ counts.ntoosmall =
         Cardinality({pair \in ClosedComponents : Cardinality(pair[2]) < cfg.min_spot_size})
    /\ counts.ntoolarge =
         Cardinality({pair \in ClosedComponents : Cardinality(pair[2]) > cfg.max_spot_size})

\* C5 witness: with min_spot_size = max_spot_size = 2 a component of 2 pixels
\* is accepted, one of 1 pixel counted too small and one of 3 too large.
C5_Witness ==
  /\ pc = "extracted"
  /\ cfg.min_spot_size = 2 /\ cfg.max_spot_size = 2
  /\ counts.ntoosmall = 1 /\ counts.ntoolarge = 1
  /\ \E s \in shoeboxes : s.spot_size = 2

\* C6 as stated: the assertion of the counts never fails, and after the
\* extraction too small + too large + accepted is the number of closed
\* components.
C6_CountsAddUp ==
  /\ err # "ntoosmall + ntoolarge"
  /\ pc \in AfterExtraction =>
       counts.ntoosmall + counts.ntoolarge + Cardinality(shoeboxes)
         = Cardinality(ClosedComponents)

\* Whether the component c is in every frame of the scan.
InEveryFrame(c) == \A z \in Indices : \E px \in c : px[3] = ArrayRangeStart + z
HotFound == pc \in {"found", "done"} /\ cfg.write_hot_mask

\* C7 as stated: every closed component is flagged if and only if its
\* z-extent is the scan length.
C7_EveryComponent ==
  HotFound =>
    \A p \in Panels : \A c \in labeller[p].closed :
      (\E s \in hot_spots : s.panel = p /\ s.pixels = c)
        <=> (ZMax(c) + 1 - ZMin(c) = NumFrames)

\* C7: with the hot mask asked for, an accepted shoebox is flagged if and
\* only if its z-extent is the scan length, which is when its component is
\* in every frame; one whose extent is one less is not flagged, and no
\* component rejected for its size is flagged.
C7_AcceptedHotIffFullSpan ==
  HotFound =>
    /\ hot_spots \subseteq shoeboxes
    /\ \A s \in shoeboxes :
         /\ s \in hot_spots <=> (ZMax(s.pixels) + 1 - ZMin(s.pixels) = NumFrames)
         /\ s \in hot_spots <=> InEveryFrame(s.pixels)
         /\ ZMax(s.pixels) + 1 - ZMin(s.pixels) = NumFrames - 1 => s \notin hot_spots

\* C7 witness: one shoebox of every frame is flagged, one of all frames but
\* one is not.
C7_Witness ==
  /\ pc = "found" /\ cfg.write_hot_mask
  /\ \E s \in hot_spots : InEveryFrame(s.pixels)
  /\ \E s \in shoeboxes \ hot_spots :
       ZMax(s.pixels) + 1 - ZMin(s.pixels) = NumFrames - 1

\* C8 as stated: a pixel of the hot mask is false if and only if a flagged
\* shoebox of the panel records it in some frame.
C8_AnyFrame ==
  HotFound =>
    \A p \in Panels : \A xy \in Coords :
      ~hot_mask.data[p][xy]
        <=> \E s \in hot_spots :
              s.panel = p /\ \E z \in Indices : <<xy[1], xy[2], z>> \in s.pixels

\* C8: a pixel of the hot mask is false if and only if it is strong in every
\* frame of the scan and its component was accepted; a pixel a flagged
\* shoebox records in some frames only stays true, as every other pixel.
C8_EveryFrame ==
  HotFound =>
    /\ hot_mask.present
    /\ \A p \in Panels : \A xy \in Coords :
         ~hot_mask.data[p][xy]
           <=> /\ \A i \in Indices : <<i, p, xy[1], xy[2]>> \in strong
               /\ \E s \in shoeboxes :
                    s.panel = p /\ <<xy[1], xy[2], ArrayRangeStart>> \in s.pixels

\* C8 witness: a flagged shoebox holds one pixel in every frame, false in
\* the hot mask, and one pixel in one frame only, true in the hot mask.
C8_Witness ==
  /\ pc = "found" /\ cfg.write_hot_mask
  /\ \E s \in hot_spots : \E px \in s.pixels :
       /\ hot_mask.data[s.panel][<<px[1], px[2]>>]
       /\ \E xy \in Coords : ~hot_mask.data[s.panel][xy]

\* C9 as stated: with an external mask, the mask stored on the imageset and
\* the mask written out are both the AND of the external mask and the hot
\* mask.
C9_BothMasksAnd ==
  (pc = "done" /\ cfg.write_hot_mask /\ cfg.ext_mask.present) =>
    /\ lookup_mask.data = MaskAnd(cfg.ext_mask.data, hot_mask.data)
    /\ written.present
    /\ written.data = MaskAnd(cfg.ext_mask.data, hot_mask.data)

\* The least m with m >= tenths / 10 * n.
CeilTenths(tenths, n) ==
  CHOOSE m \in 0..(tenths * n) : 10 * m >= tenths * n /\ 10 * (m - 1) < tenths * n

\* C10: the call on an image raises if and only if the strong pixels of all
\* its panels are more than ceil(max_strong_pixel_fraction * pixels of the
\* image); with 0.1 and 100 pixels, 11 strong pixels raise and 10 do not.
C10_GuardIff ==
  answer.at \in {"raised", "returned"} =>
    LET total  == SumSeq(probe.num_image)
        nstrong == SumSeq(probe.num_strong)
    IN  /\ answer.at = "raised" <=> nstrong > CeilTenths(probe.fraction, total)
        /\ (probe.fraction = 1 /\ total = 100 /\ nstrong = 11) => answer.at = "raised"
        /\ (probe.fraction = 1 /\ total = 100 /\ nstrong = 10) => answer.at = "returned"

\* C10 witness: 0.1, 100 pixels, 11 strong pixels: the call has raised.
C10_Witness ==
  /\ answer.at = "raised"
  /\ probe.fraction = 1
  /\ SumSeq(probe.num_image) = 100
  /\ SumSeq(probe.num_strong) = 11

\* Whether frame i holds more strong pixels than the check allows.
TripsGuard(i) ==
  /\ cfg.fraction < 10
  /\ Cardinality({px \in strong : px[1] = i}) > CeilTenths(cfg.fraction, NumImage)

\* C11: when a frame trips the strong-pixel check the run ends in an error:
\* the frame is never added to a labeller, the run never gets past the
\* labelling, no shoeboxes and no hot mask are made or written, and nothing
\* more happens after the error (no retry).
C11_GuardFatal ==
  /\ \A p \in Panels : \A k \in 1..Len(labeller[p].frames) :
       ~TripsGuard(labeller[p].frames[k])
  /\ (\E i \in Indices : TripsGuard(i)) => pc \notin AfterLabelling
  /\ err = "too many strong pixels" =>
       /\ pc = "error"
       /\ shoeboxes = {}
       /\ ~hot_mask.present /\ ~written.present
       /\ lookup_mask = cfg.ext_mask
       /\ ~ENABLED Next

\* C11 witness: the sequential run has ended with the error of the check
\* after it had added a frame.
C11_Witness ==
  /\ err = "too many strong pixels"
  /\ ~Parallel
  /\ \E p \in Panels : Len(labeller[p].frames) >= 1

\* C12: in a parallel run, when the task of some frame raises, the run never
\* gets past the labelling and makes no shoeboxes, and no frame from that
\* one on is handed to the labellers; once a task has raised the run has
\* ended with the task's exception.
C12_TaskFaultFatal ==
  Parallel =>
    /\ (\E i \in Indices : reads[i] = "fault") =>
         (pc \notin AfterLabelling /\ shoeboxes = {})
    /\ err = "task fault" => (pc = "error" /\ ~ENABLED Next)
    /\ \A i \in Indices : reads[i] = "fault" => cursor <= i

\* C12 witness: a parallel run ended with the exception of a task after the
\* frames before it had been added.
C12_Witness ==
  /\ Parallel
  /\ err = "task fault"
  /\ \E p \in Panels : Len(labeller[p].frames) >= 1

\* C13: once a parallel run has failed, every chunk that had not completed
\* is cancelled, and from then on no labeller changes: the results still
\* waiting to be handed over are never added.
C13_CancelledAfterFault ==
  /\ [](pc = "error" /\ Parallel =>
         \A k \in DOMAIN chunks : chunks[k] \in {"done", "cancelled"})
  /\ [][pc = "error" => (labeller' = labeller /\ buffer' = buffer)]_vars

\* C13 witness: a task raised while another chunk's result was waiting to be
\* handed over and a chunk was still to run.
C13_Witness ==
  /\ pc = "error" /\ Parallel
  /\ err \in {"task fault", "too many strong pixels"}
  /\ buffer # {}
  /\ \E k \in DOMAIN chunks : chunks[k] = "cancelled"

\* C18: when the result of a frame holds a number of pixel lists other than
\* the number of panels, the run ends with the error of the assertion and no
\* list of that frame is added to any labeller: the labellers only hold
\* frames whose image had every panel, and the run never gets past the
\* labelling.
C18_InconsistentSizeFatal ==
  /\ \A p \in Panels : \A k \in 1..Len(labeller[p].frames) :
       reads[labeller[p].frames[k] - ArrayRangeStart] = "ok"
  /\ (\E i \in Indices : reads[i] = "short") => pc \notin AfterLabelling
  /\ err = "Inconsistent size" =>
       /\ pc = "error"
       /\ ~ENABLED Next
       /\ \A p \in Panels : labeller[p].frames = labeller[1].frames
       /\ reads[Len(labeller[1].frames)] = "short"

\* C18 witness: a run has ended with the error of the assertion at its
\* second frame or later.
C18_Witness ==
  /\ err = "Inconsistent size"
  /\ Len(labeller[1].frames) >= 1

\* The scenario: two frames, frame 0 = {(2,2), (2,3)}, frame 1 = {(2,2)}.
Scenario14 ==
  /\ Len(probe.lists) = 2
  /\ probe.lists[1] = {<<2, 2>>, <<2, 3>>}
  /\ probe.lists[2] = {<<2, 2>>}

InRoi(c, roi) ==
  /\ roi.x0 <= c[1] /\ c[1] < roi.x1
  /\ roi.y0 <= c[2] /\ c[2] < roi.y1

\* The valid pixels of the probe: true in the image's mask and in the static
\* mask when there is one.
ValidPixels ==
  {c \in CropCoords : /\ c \in probe.mk.on
                      /\ probe.static.present => c \in probe.static.data.on}

\* C15: with a region of interest, a pixel of the panel is in the threshold
\* mask if and only if it is inside the region and the threshold function,
\* given the crop of the image and of the mask, flags it at its place in the
\* crop; no pixel outside the region is a strong pixel.
C15_RoiCrop ==
  (answer.at = "done" /\ probe.roi.present) =>
    LET roi  == probe.roi
        crop == {c \in CropCoords : InRoi(c, roi)}
        \* the threshold function on the crop: valid, bright, and some valid
        \* pixel of the crop is not bright
        flagged == {c \in crop : /\ c \in probe.im.on /\ c \in ValidPixels
                                  /\ \E d \in crop \cap ValidPixels :
                                       d \notin probe.im.on}
    IN  /\ answer.threshold_mask.w = CropWidth
        /\ answer.threshold_mask.h = CropHeight
        /\ answer.threshold_mask.on = flagged
        /\ \A c \in answer.plist : InRoi(c, roi)

\* C15 witness: the region of interest starts off the origin, a pixel inside
\* it is strong and a bright valid pixel outside it is not.
C15_Witness ==
  /\ answer.at = "done" /\ probe.roi.present
  /\ probe.roi.x0 > 0
  /\ answer.plist # {}
  /\ \E c \in (probe.im.on \cap ValidPixels) \ answer.plist : ~InRoi(c, probe.roi)

C17_ConfigErrorEager ==
  cfg.min_spot_size > cfg.max_spot_size =>
    /\ pc \in {"setup", "error"}
    /\ task = 0 /\ cursor = 0 /\ buffer = {} /\ log = <<>>
    /\ \A p \in Panels : labeller[p].frames = <<>>

\* C19: in a parallel run the log holds, task after task, the messages of
\* the tasks handed over, each with the level and the text the task logged,
\* and the lists of the task were merged when its messages were emitted.
C19_EmittedAfterMerge ==
  (pc # "setup" /\ Parallel) =>
    \A k \in 1..Len(log) :
      LET messages == Extract(strong, reads[k - 1], cfg.fraction, k - 1).messages
      IN  /\ log[k].levelno = messages[1].levelno
          /\ log[k].msg = messages[1].msg
          /\ log[k].merged >= k

\* C20: with mp_nproc = 1 and mp_njobs = 1 the run never enters the parallel
\* map (no chunk is dispatched, no result is buffered or handed over), and
\* when frame i is extracted the labellers hold exactly the frames before i,
\* in order, and hold frame i as well before the next frame is extracted.
C20_SequentialWhenOneOne ==
  (cfg.mp_nproc = 1 /\ cfg.mp_njobs = 1 /\ pc # "setup") =>
    /\ pc # "parallel"
    /\ chunks = <<>> /\ buffer = {} /\ cursor = 0
    /\ \A p \in Panels : labeller[p].frames = [i \in 1..task |-> i - 1]
    /\ Len(log) = task
    /\ \A k \in 1..Len(log) : log[k].msg[2] = k /\ log[k].merged = k - 1

\* C20 witness: a sequential run with strong pixels, two frames in.
C20_Witness ==
  /\ cfg.mp_nproc = 1 /\ cfg.mp_njobs = 1
  /\ pc = "sequential" /\ task = 2
  /\ strong # {}
  /\ \A p \in Panels : labeller[p].frames = <<0, 1>>

\* The frame that the add about to happen, or happening in this step, is of.
AddFrame == ArrayRangeStart + Len(answer.lab.frames)

\* C21: an add of frame f joins pixels to an open component only if one of
\* the added pixels has the (x, y) of a pixel of the component in frame
\* f - 1; with (2,2) in frame 0 and (3,2) in frame 1 and no other strong
\* pixel there are two components.
C21_DirectlyAboveOnly ==
  /\ [](answer.at = "created" /\ Len(probe.lists) >= 2
         /\ probe.lists[1] = {<<2, 2>>} /\ probe.lists[2] = {<<3, 2>>}
         /\ (\A k \in 3..Len(probe.lists) : probe.lists[k] = {})
         => answer.lab.closed = {{<<2, 2, 0>>}, {<<3, 2, 1>>}})
  /\ [][\A c \in answer.lab.open, d \in answer'.lab.open :
          (c \subseteq d /\ c # d) =>
            \E px \in d \ c :
              /\ px[3] = AddFrame
              /\ <<px[1], px[2], AddFrame - 1>> \in c]_vars

\* C21 witness: the diagonal pair across frames has been labelled and made
\* into two shoeboxes.
C21_Witness ==
  /\ answer.at = "created" /\ Len(probe.lists) = 2
  /\ probe.lists[1] = {<<2, 2>>} /\ probe.lists[2] = {<<3, 2>>}
  /\ Cardinality(answer.boxes) = 2

\* The pixel list of the add about to happen, lifted to its frame.
AddPixels == Lift(probe.lists[Len(answer.lab.frames) + 1], AddFrame)

\* The open components that hold, in the frame before the added one, the
\* (x, y) of one of the pixels of g.
AdjacentOpen(g) ==
  {c \in answer.lab.open :
     \E px \in g : <<px[1], px[2], AddFrame - 1>> \in c}

\* Whether the pixels of g are one in-frame group: every two of them are
\* linked by a chain of edge neighbours inside g (g has at most 4 pixels).
OneGroup(g) ==
  \A a, b \in g :
    \E chain \in UNION {[1..n -> g] : n \in 1..4} :
      /\ chain[1] = a /\ chain[Len(chain)] = b
      /\ \A i \in 1..(Len(chain) - 1) : Touch2D({chain[i]}, {chain[i + 1]})

C23_NeverReopened ==
  [][\A c \in answer.lab.open :
       ZMax(c) < AddFrame - 1 =>
         IF answer'.at = "add" THEN c \in answer'.lab.open
         ELSE c \in answer'.lab.closed]_vars

\* C23 witness: (2,2) is strong in frames 0 and 2 and not in frame 1; the
\* component of frame 0 was closed with its one pixel.
C23_Witness ==
  /\ answer.at = "created"
  /\ Len(probe.lists) = 3
  /\ <<2, 2>> \in probe.lists[1] /\ probe.lists[2] = {}
  /\ <<2, 2>> \in probe.lists[3]
  /\ {<<2, 2, 0>>} \in answer.lab.closed
  /\ \E c \in answer.lab.closed : <<2, 2, 2>> \in c

\* Every frame of the run, in order.
AllFrames == [i \in 1..NumFrames |-> ArrayRangeStart + i - 1]

\* C24: while frames are being added there is no shoebox and no closed
\* component; a step that closes a component or makes a shoebox starts from
\* a state in which every panel's labeller has been given every frame; once
\* the shoeboxes are made the labellers are not touched again and no
\* shoebox is added; and from then on no panel has an open component.
C24_CreateAfterLastFrame ==
  /\ [](pc \in AfterCreation => \A p \in Panels : labeller[p].open = {})
  /\ [](pc \in {"setup", "sequential", "parallel", "labelled"} =>
           shoeboxes = {} /\ \A p \in Panels : labeller[p].closed = {})
  /\ [][(~(shoeboxes' \subseteq shoeboxes)
            \/ \E p \in Panels : labeller'[p].closed # labeller[p].closed) =>
          /\ pc \notin AfterCreation
          /\ \A p \in Panels : labeller[p].frames = AllFrames]_vars
  /\ [][(pc \in AfterCreation) =>
          (labeller' = labeller /\ shoeboxes' \subseteq shoeboxes)]_vars

\* C24 witness: the shoeboxes were made from components that were open in
\* both panels after the last frame.
C24_Witness ==
  /\ pc = "created"
  /\ \A p \in Panels :
       /\ labeller[p].frames = AllFrames
       /\ labeller[p].closed # {}
       /\ \E s \in shoeboxes : s.panel = p

C26_AdjustedValid ==
  (/\ pc # "setup"
   /\ cfg.mp_nproc >= 1 /\ cfg.mp_njobs >= 1
   /\ (cfg.mp_auto \/ cfg.mp_chunksize >= 1)
   /\ (cfg.mp_njobs > 1 => cfg.mp_method)) =>
    /\ mp.failed = ""
    /\ mp.nproc >= 1 /\ mp.njobs >= 1
    /\ mp.nproc * mp.njobs <= NumFrames
    /\ 1 <= mp.chunksize
    /\ mp.chunksize <= FloorDiv(NumFrames, mp.njobs * mp.nproc)

\* C27: for an imageset that is not a sweep and has more than one image,
\* extracting a frame fails whenever some adjacent pair of indices, the
\* last pair included, does not differ by exactly 1.
C27_NonConsecutiveFails ==
  (/\ answer.at # "call"
   /\ ~probe.sweep
   /\ Len(probe.ind) > 1
   /\ \E i \in 1..(Len(probe.ind) - 1) : probe.ind[i] + 1 # probe.ind[i + 1])
    => answer.at = "error"

\* The frames that the k-th scan range processes.
ScanFrames(k) ==
  LET scan == ScanRangeList(probe.scan_range)[k]
  IN  (scan[1] - 1)..(scan[2] - 1)

\* C28: with a scan_range, a shoebox is flagged as a possible hot spot if
\* and only if its component is in every frame of the scan range it was
\* found in, whatever the number of images of the imageset, and no shoebox
\* holds a pixel outside the scan range it was found in.
C28_JudgedAgainstRange ==
  (answer.at = "found" /\ probe.scan_range # <<>>) =>
    \A t \in answer.spots_all :
      /\ t \in answer.hot <=>
           \A f \in ScanFrames(t.scan) : \E px \in t.box.pixels : px[3] = f
      /\ \A px \in t.box.pixels : px[3] \in ScanFrames(t.scan)

\* C29: every closed component has a pixel in every frame from its z_min
\* to its z_max; every shoebox has z1 - z0 >= 1, as many as the frames of
\* its component, and the assertion on z1 - z0 of the hot pixel search
\* never fails.
C29_GapFree ==
  /\ \A p \in Panels : \A c \in labeller[p].closed :
       \A f \in ZMin(c)..ZMax(c) : \E px \in c : px[3] = f
  /\ \A s \in shoeboxes :
       /\ ZRange(s) >= 1
       /\ ZRange(s) = Cardinality({px[3] : px \in s.pixels})
  /\ err # "zr.all_gt(0)"

\* C29 witness: the hot pixel search has passed its assertion with a
\* shoebox of one frame and one of every frame, a frame without strong
\* pixel at the place of the first.
C29_Witness ==
  /\ pc = "found" /\ cfg.write_hot_mask
  /\ \E s \in shoeboxes : ZRange(s) = NumFrames
  /\ \E s \in shoeboxes :
       /\ ZRange(s) = 1
       /\ \E px \in strong :
            /\ px[2] = s.panel /\ px[1] > s.bbox[5] + 1
            /\ <<px[3], px[4], s.bbox[5]>> \in s.pixels

\* The rows of a table, as a set.
RowsOf(table) == {table[i] : i \in 1..Len(table)}

\* C30: when process_reference returns for an input that is not None,
\* every input row is in exactly one of the two tables, once; the rows that
\* are not indexed or have the Miller index (0,0,0) are in the rubbish
\* table and all others in the reference table; and the reference table is
\* not empty and holds only indexed rows with a non-zero Miller index and
\* id >= 0.
C30_SplitInTwo ==
  answer.at = "returned" =>
    /\ RowsOf(answer.reference) \cup RowsOf(answer.rubbish) = RowsOf(probe.rows)
    /\ RowsOf(answer.reference) \cap RowsOf(answer.rubbish) = {}
    /\ Len(answer.reference) + Len(answer.rubbish) = Len(probe.rows)
    /\ \A r \in RowsOf(probe.rows) :
         r \in RowsOf(answer.rubbish) <=> (~r.indexed \/ r.hkl_zero)
    /\ \A r \in RowsOf(answer.reference) :
         r.indexed /\ ~r.hkl_zero /\ ~r.id_negative
    /\ Len(answer.reference) > 0

====
